---- MODULE Spec2Model ----
(***************************************************************************)
(* Model of memwar's src/mem.rs: the Allocation facade over                *)
(* ReadProcessMemory / WriteProcessMemory, the typed readers and writers,  *)
(* the buffered writer, the pointer-chain walker, the float vectors and    *)
(* the SendAlloc thread-transfer wrapper.                                  *)
(*                                                                         *)
(* Every public function is a call action (named as in the source) that    *)
(* runs the code up to its first OS call; the OS call itself is a step of  *)
(* the environment (ReadProcessMemory, WriteProcessMemory); a *_ret action *)
(* runs the code from the return of the OS call to the next OS call or to  *)
(* the function's return.                                                  *)
(*                                                                         *)
(* Integers wider than TLC's are kept as base-256 numerals, most           *)
(* significant digit first, so that to_le_bytes / from_le_bytes are real   *)
(* conversions and usize addition is carried out digit by digit with its   *)
(* 64-bit wrap; no sum of the inputs below reaches 2^64.                   *)
(***************************************************************************)
EXTENDS Integers, Sequences, FiniteSets, TLC

VARIABLES
    mem,        \* target process memory: [mapped address -> byte]
    shortOk,    \* whether the host may report success with a short transfer
    alloc,      \* per thread: the Allocation it holds (h_process, base)
    pc,         \* per thread: "idle" | "os" | "ret" | "done" (+ thread script)
    op,         \* per thread: the running function and its arguments
    loc,        \* per thread: the running function's locals
    req,        \* per thread: the OS call being issued
    res,        \* per thread: what the OS call returned
    result,     \* per thread: the function's Result
    lastError,  \* per thread: GetLastError() (thread local)
    ghost,      \* per thread: history of the OS calls of the running function
    chan,       \* the SendAlloc moved from thread A to thread B
    fence,      \* the synchronization fence between thread A and thread B
    plan        \* the caller's scenario: the calls it makes and their results

vars == <<mem, shortOk, alloc, pc, op, loc, req, res, result, lastError,
          ghost, chan, fence, plan>>

-----------------------------------------------------------------------------
(* Bounds of the model *)

MemLen == 24        \* bytes of committed memory in the target process
MaxOffsets == 2     \* longest offset list given to deref_chain
MaxLen == 3         \* longest payload given to the buffered writer
CallCap == 4        \* the OS-call counter of the history saturates here

-----------------------------------------------------------------------------
(* Machine values *)

WordSize == 8                   \* size_of::<usize>()
MemLo == 2 * WordSize           \* the low addresses (null page) are never mapped
MemHi == MemLo + MemLen
Mapped == MemLo..(MemHi - 1)
Threads == {"A", "B"}
ErrCodes == {5, 299}            \* ERROR_ACCESS_DENIED, ERROR_PARTIAL_COPY
HProc == "hProcess"             \* the opened handle of the target process
HInvalid == "INVALID_HANDLE_VALUE"

Min(a, b) == IF a < b THEN a ELSE b

\* the tuple of a sequence given as a function (evaluated once)
Tuple(s, n) == SubSeq(s, 1, n)

Zeros(n) == Tuple([i \in 1..n |-> 0], n)

Reverse(s) == Tuple([i \in 1..Len(s) |-> s[Len(s) + 1 - i]], Len(s))

\* An n-byte unsigned value is the numeral of its base-256 digits, most
\* significant first.  Digit p (weight 256^p) of a small natural:
Digit(x, p) == IF p >= 3 THEN (IF p = 3 THEN x \div 16777216 ELSE 0)
               ELSE (x \div (256 ^ p)) % 256

Num(x, n) == Tuple([i \in 1..n |-> Digit(x, n - i)], n)

Word(x) == Num(x, WordSize)

\* 0xDEADBEEF as a machine word
DEADBEEF == Tuple([i \in 1..WordSize |->
                     IF i <= WordSize - 4 THEN 0
                     ELSE <<222, 173, 190, 239>>[i - (WordSize - 4)]], WordSize)

\* wrapping addition of two numerals of the same length
RECURSIVE CarryInto(_, _, _)
CarryInto(a, b, i) ==
    \* the carry into digit i (digits to the right of i already added)
    IF i = Len(a) THEN 0
    ELSE (a[i + 1] + b[i + 1] + CarryInto(a, b, i + 1)) \div 256

wrapping_add(a, b) ==
    Tuple([i \in 1..Len(a) |-> (a[i] + b[i] + CarryInto(a, b, i)) % 256], Len(a))

\* pointer.add(n) and `n + word` for a small natural n
PtrAdd(p, n) == wrapping_add(p, Word(n))

\* a pointer below 2^16 as a natural; every mapped address is one
IsLow(p) == \A i \in 1..(WordSize - 2) : p[i] = 0
LowVal(p) == p[WordSize - 1] * 256 + p[WordSize]

InRange(p, n) == /\ IsLow(p)
                 /\ LowVal(p) >= MemLo
                 /\ LowVal(p) + n <= MemHi

\* bytes of the target at p .. p+n-1, lowest address first
BytesAt(m, p, n) == Tuple([i \in 1..n |-> m[LowVal(p) + i - 1]], n)

\* the first k bytes of src laid over buf
Overlay(buf, src, k) ==
    Tuple([i \in 1..Len(buf) |-> IF i <= k THEN src[i] ELSE buf[i]], Len(buf))

\* the target memory after bytes data[1..k] were stored at p
Store(m, p, data, k) ==
    [a \in DOMAIN m |->
        IF a >= LowVal(p) /\ a < LowVal(p) + k THEN data[a - LowVal(p) + 1]
        ELSE m[a]]

\* (mutant) most significant byte first
to_be_bytes(v) == v

to_le_bytes(v) == Reverse(v)
from_le_bytes(buf) == Reverse(buf)

Ok(v) == [tag |-> "Ok", val |-> v]
Err(e) == [tag |-> "Err", err |-> e]
None == [tag |-> "None"]

existing(h_process, base) == [h_process |-> h_process, base |-> base]

-----------------------------------------------------------------------------
(* History of the OS calls of the running function (not program state) *)

Ghost0 == [calls |-> 0,         \* OS calls issued, saturating at CallCap
           firstErr |-> 0,      \* error code of the first failing OS call
           failed |-> FALSE,    \* an OS call has failed
           after |-> FALSE,     \* an OS call was issued after a failure
           allFull |-> TRUE,    \* every OS call so far transferred all bytes
           spurious |-> FALSE,  \* an OS call failed on mapped memory
           memAtFail |-> <<>>]  \* the target memory at the first failure

Issue(g) == [g EXCEPT !.calls = Min(g.calls + 1, CallCap),
                      !.after = g.after \/ g.failed]

-----------------------------------------------------------------------------
(* The host OS *)

ReadReq(h, addr, n) == [kind |-> "read", h |-> h, addr |-> addr, n |-> n,
                        data |-> <<>>]
WriteReq(h, addr, data, n) == [kind |-> "write", h |-> h, addr |-> addr,
                               n |-> n, data |-> data]

Accessible(r) == r.h = HProc /\ InRange(r.addr, r.n)

Counts(n) == IF shortOk THEN 0..n ELSE {n}

OsFail(t, e) ==
    /\ res' = [res EXCEPT ![t] = [ok |-> FALSE, count |-> 0, bytes |-> <<>>]]
    /\ lastError' = [lastError EXCEPT ![t] = e]
    /\ LET g == ghost[t]
       IN  ghost' = [ghost EXCEPT ![t] =
                [g EXCEPT !.firstErr = IF g.failed THEN g.firstErr ELSE e,
                          !.memAtFail = IF g.failed THEN g.memAtFail ELSE mem,
                          !.failed = TRUE,
                          !.allFull = FALSE,
                          !.spurious = g.spurious \/ Accessible(req[t])]]
    /\ mem' = mem

OsOk(t, k, bytes, m) ==
    /\ res' = [res EXCEPT ![t] = [ok |-> TRUE, count |-> k, bytes |-> bytes]]
    /\ ghost' = [ghost EXCEPT ![t].allFull = ghost[t].allFull /\ k = req[t].n]
    /\ mem' = m
    /\ UNCHANGED lastError

\* ReadProcessMemory(h, addr, buf, n, &read): the thread's pending read
ReadProcessMemory(t) ==
    /\ pc[t] = "os"
    /\ req[t].kind = "read"
    /\ \/ \E e \in ErrCodes : OsFail(t, e)
       \/ /\ Accessible(req[t])
          /\ \E k \in Counts(req[t].n) :
                OsOk(t, k, SubSeq(BytesAt(mem, req[t].addr, req[t].n), 1, k), mem)
    /\ pc' = [pc EXCEPT ![t] = "ret"]
    /\ UNCHANGED <<shortOk, alloc, op, loc, req, result, chan, fence, plan>>

\* WriteProcessMemory(h, addr, data, n, &written): the thread's pending write
WriteProcessMemory(t) ==
    /\ pc[t] = "os"
    /\ req[t].kind = "write"
    /\ \/ \E e \in ErrCodes : OsFail(t, e)
       \/ /\ Accessible(req[t])
          /\ \E k \in Counts(req[t].n) :
                OsOk(t, k, <<>>, Store(mem, req[t].addr, req[t].data, k))
    /\ pc' = [pc EXCEPT ![t] = "ret"]
    /\ UNCHANGED <<shortOk, alloc, op, loc, req, result, chan, fence, plan>>

-----------------------------------------------------------------------------
(* Frames: entering a function, issuing an OS call, returning *)

\* a function is entered by an idle thread; its history starts empty
Enter(t, o, l, r) ==
    /\ pc[t] = "idle"
    /\ alloc[t] # None
    /\ op' = [op EXCEPT ![t] = o]
    /\ loc' = [loc EXCEPT ![t] = l]
    /\ req' = [req EXCEPT ![t] = r]
    /\ pc' = [pc EXCEPT ![t] = "os"]
    /\ ghost' = [ghost EXCEPT ![t] = Issue(Ghost0)]
    /\ result' = [result EXCEPT ![t] = None]
    /\ UNCHANGED <<mem, shortOk, alloc, res, lastError, chan, fence, plan>>

\* the running function issues its next OS call
Again(t, l, r) ==
    /\ loc' = [loc EXCEPT ![t] = l]
    /\ req' = [req EXCEPT ![t] = r]
    /\ pc' = [pc EXCEPT ![t] = "os"]
    /\ ghost' = [ghost EXCEPT ![t] = Issue(ghost[t])]
    /\ UNCHANGED <<mem, shortOk, alloc, op, res, result, lastError, chan, fence, plan>>

\* the running function returns v
Return(t, l, v) ==
    /\ loc' = [loc EXCEPT ![t] = l]
    /\ result' = [result EXCEPT ![t] = v]
    /\ pc' = [pc EXCEPT ![t] = "done"]
    /\ UNCHANGED <<mem, shortOk, alloc, op, req, res, lastError, ghost, chan, fence, plan>>

Running(t, names) == pc[t] = "ret" /\ op[t].name \in names

-----------------------------------------------------------------------------
(* Typed absolute reads: read_const<N> and the readers built on it *)

\* the value a typed reader builds from the N bytes of read_const
Decode(ty, buf) ==
    IF ty = "const" THEN buf
    ELSE IF ty = "u8" THEN [ty |-> ty, digits |-> <<buf[1]>>]
    ELSE [ty |-> ty, digits |-> from_le_bytes(buf)]

\* read_const::<N>(addr), on behalf of the typed reader ty:
\* let mut buf = [0; N]; self.read(addr, buf, N)
read_const(t, ty, N, addr) ==
    Enter(t, [name |-> "read_const", ty |-> ty, N |-> N, addr |-> addr],
             [buf |-> Zeros(N)],
             ReadReq(alloc[t].h_process, addr, N))

read_u8(t, addr) == read_const(t, "u8", 1, addr)
read_u16(t, addr) == read_const(t, "u16", 2, addr)
read_u32(t, addr) == read_const(t, "u32", 4, addr)
read_u64(t, addr) == read_const(t, "u64", 8, addr)
read_u128(t, addr) == read_const(t, "u128", 16, addr)
read_i16(t, addr) == read_const(t, "i16", 2, addr)
read_i32(t, addr) == read_const(t, "i32", 4, addr)
read_i64(t, addr) == read_const(t, "i64", 8, addr)
read_f32(t, addr) == read_const(t, "f32", 4, addr)
read_f64(t, addr) == read_const(t, "f64", 8, addr)

\* Allocation::read after the OS call: Err(GetLastError()) or Ok(read)
read(t) == IF res[t].ok THEN Ok(res[t].count) ELSE Err(lastError[t])

\* read_const after self.read(..)? : fails only when read reports 0 bytes
ReadConstOutcome(t, buf) ==
    IF read(t).tag = "Err" THEN read(t)
    ELSE IF read(t).val = 0 THEN Err(lastError[t])
    ELSE Ok(buf)

read_const_ret(t) ==
    /\ Running(t, {"read_const"})
    /\ LET buf == Overlay(loc[t].buf, res[t].bytes, res[t].count)
           r == ReadConstOutcome(t, buf)
       IN  Return(t, [buf |-> buf],
                  IF r.tag = "Ok" THEN Ok(Decode(op[t].ty, r.val)) ELSE r)

-----------------------------------------------------------------------------
(* Vector2::read_from, Vector3::read_from: consecutive read_f32 calls *)

\* a function that returns before any OS call
Immediate(t, o, l, v) ==
    /\ pc[t] = "idle"
    /\ alloc[t] # None
    /\ op' = [op EXCEPT ![t] = o]
    /\ loc' = [loc EXCEPT ![t] = l]
    /\ result' = [result EXCEPT ![t] = v]
    /\ pc' = [pc EXCEPT ![t] = "done"]
    /\ ghost' = [ghost EXCEPT ![t] = Ghost0]
    /\ UNCHANGED <<mem, shortOk, alloc, req, res, lastError, chan, fence, plan>>

vector_read_from(t, dims, base) ==
    Enter(t, [name |-> "read_from", dims |-> dims, addr |-> base],
             [buf |-> Zeros(4), comps |-> <<>>],
             ReadReq(alloc[t].h_process, base, 4))

Vector2_read_from(t, base) == vector_read_from(t, 2, base)
Vector3_read_from(t, base) == vector_read_from(t, 3, base)

\* after the read_f32 of one component: `?` returns its error, else the next
\* component is read at base.add(4 * k), or the vector is returned
vector_read_from_ret(t, dims) ==
    /\ Running(t, {"read_from"})
    /\ op[t].dims = dims
    /\ LET buf == Overlay(loc[t].buf, res[t].bytes, res[t].count)
           r == ReadConstOutcome(t, buf)
           comps == Append(loc[t].comps, Decode("f32", buf))
       IN  IF r.tag = "Err"
           THEN Return(t, [loc[t] EXCEPT !.buf = buf], r)
           ELSE IF Len(comps) = dims
           THEN Return(t, [buf |-> buf, comps |-> comps], Ok(comps))
           ELSE Again(t, [buf |-> Zeros(4), comps |-> comps],
                      ReadReq(alloc[t].h_process,
                              PtrAdd(op[t].addr, 4 * Len(comps)), 4))

Vector2_read_from_ret(t) == vector_read_from_ret(t, 2)
Vector3_read_from_ret(t) == vector_read_from_ret(t, 3)

-----------------------------------------------------------------------------
(* deref_chain, deref_chain_with_base *)

\* ReadProcessMemory stores into the bytes of `tmp: usize` (little endian
\* host); lpNumberOfBytesRead is null
StoreIntoWord(tmp, bytes, k) == from_le_bytes(Overlay(to_le_bytes(tmp), bytes, k))

\* (mutant) the read at base is hoisted out of the loop
deref_chain_reading_first(t, base, offsets) ==
    Enter(t, [name |-> "deref_chain", start |-> base, offsets |-> offsets],
             [addr |-> base, tmp |-> Word(0), i |-> 0, first |-> TRUE],
             ReadReq(alloc[t].h_process, base, WordSize))

\* let mut addr = base; let mut tmp = 0; the loop body is entered only when
\* the offset list is not empty, and its first pass (i == 0) reads at base
deref_chain(t, base, offsets) ==
    LET o == [name |-> "deref_chain", start |-> base, offsets |-> offsets]
        l == [addr |-> base, tmp |-> Word(0), i |-> 0, first |-> TRUE]
    IN  IF Len(offsets) = 0
        THEN Immediate(t, o, l, Ok(base))
        ELSE Enter(t, o, l, ReadReq(alloc[t].h_process, base, WordSize))

deref_chain_with_base(t, base, offsets) ==
    deref_chain(t, wrapping_add(base, alloc[t].base), offsets)

\* addr = (offset + tmp) as *mut _, for the offset of pass i (0-based)
\* (mutant) the offset is dropped
NextAddrNoOffset(offsets, i, tmp) == tmp

NextAddr(offsets, i, tmp) == PtrAdd(tmp, offsets[i + 1])

\* (mutant) the word read last is returned
DerefResultLastWord(addr, tmp) == Ok(tmp)

\* what the function returns after the loop: Ok(addr)
DerefResult(addr, tmp) == Ok(addr)

deref_chain_ret(t) ==
    /\ Running(t, {"deref_chain"})
    /\ LET l == loc[t]
           offsets == op[t].offsets
           tmp == StoreIntoWord(l.tmp, res[t].bytes, res[t].count)
       IN  IF ~res[t].ok
           THEN Return(t, l, Err(lastError[t]))
           ELSE IF l.first
           THEN \* pass i == 0, after the read at base
                LET a == NextAddr(offsets, l.i, tmp)
                IN  Again(t, [addr |-> a, tmp |-> tmp, i |-> l.i, first |-> FALSE],
                          ReadReq(alloc[t].h_process, a, WordSize))
           ELSE IF l.i + 1 < Len(offsets)
           THEN \* next pass
                LET a == NextAddr(offsets, l.i + 1, tmp)
                IN  Again(t, [addr |-> a, tmp |-> tmp, i |-> l.i + 1, first |-> FALSE],
                          ReadReq(alloc[t].h_process, a, WordSize))
           ELSE Return(t, [l EXCEPT !.tmp = tmp], DerefResult(l.addr, tmp))

-----------------------------------------------------------------------------
(* Writes and offset-relative reads *)

\* Allocation::write(addr, data, data_size)
write(t, addr, data, data_size) ==
    Enter(t, [name |-> "write", addr |-> addr, data |-> data],
             [buf |-> <<>>],
             WriteReq(alloc[t].h_process, addr, data, data_size))

write_u32(t, addr, data) == write(t, addr, to_le_bytes(data), 4)

write_offset(t, offset, data, data_size) ==
    write(t, PtrAdd(alloc[t].base, offset), data, data_size)

write_u32_offset(t, offset, data) == write_offset(t, offset, to_le_bytes(data), 4)

\* Err(GetLastError()) or Ok(written)
WriteOutcome(t) == IF res[t].ok THEN Ok(res[t].count) ELSE Err(lastError[t])

write_ret(t) ==
    /\ Running(t, {"write"})
    /\ Return(t, loc[t], WriteOutcome(t))

\* Allocation::read_offset(offset, buf, buf_size), on behalf of name
read_offset(t, name, offset, buf_size) ==
    Enter(t, [name |-> name, offset |-> offset],
             [buf |-> Zeros(buf_size)],
             ReadReq(alloc[t].h_process, PtrAdd(alloc[t].base, offset), buf_size))

\* let mut buf = [0; 4]; self.read_offset(offset, buf, 4)?
read_u32_offset(t, offset) == read_offset(t, "read_u32_offset", offset, 4)

\* the byte count of read_offset is dropped; Ok(u32::from_le_bytes(buf))
read_u32_offset_ret(t) ==
    /\ Running(t, {"read_u32_offset"})
    /\ LET buf == Overlay(loc[t].buf, res[t].bytes, res[t].count)
       IN  Return(t, [buf |-> buf],
                  IF read(t).tag = "Err" THEN read(t)
                  ELSE Ok([ty |-> "u32", digits |-> from_le_bytes(buf)]))

-----------------------------------------------------------------------------
(* write_all_bytes_buffered_offset, write_all_bytes_buffered *)

Unit == <<>>

\* one pass of the loop body up to the call of write_offset:
\* real_remains = remaining.min(buf_size); buf = data[total_written ..][.. real_remains]
ChunkLen(remaining, buf_size) == Min(remaining, buf_size)

ChunkReq(t, offset, data, buf_size, l) ==
    LET real_remains == ChunkLen(l.remaining, buf_size)
    IN  WriteReq(alloc[t].h_process,
                 PtrAdd(alloc[t].base, l.total_written + offset),
                 SubSeq(data, l.total_written + 1, l.total_written + real_remains),
                 real_remains)

write_all_bytes_buffered_offset(t, offset, data, buf_size) ==
    LET o == [name |-> "buffered", offset |-> offset, data |-> data,
              buf_size |-> buf_size, pre |-> mem]
        l == [remaining |-> Len(data), total_written |-> 0]
    IN  IF l.remaining > 0
        THEN Enter(t, o, l, ChunkReq(t, offset, data, buf_size, l))
        ELSE Immediate(t, o, l, Ok(Unit))

write_all_bytes_buffered(t, data, buf_size) ==
    write_all_bytes_buffered_offset(t, 0, data, buf_size)

\* (mutant) the write position is not advanced
AdvanceRemainingOnly(l, written) == [remaining |-> l.remaining - written,
                                     total_written |-> l.total_written]

\* total_written += written; remaining -= written
Advance(l, written) == [remaining |-> l.remaining - written,
                        total_written |-> l.total_written + written]

\* (mutant) a failed chunk call is retried instead of returned
write_all_bytes_buffered_offset_ret_retrying(t) ==
    /\ Running(t, {"buffered"})
    /\ LET r == WriteOutcome(t)
           l == IF r.tag = "Ok" THEN Advance(loc[t], r.val) ELSE loc[t]
       IN  IF l.remaining > 0
           THEN Again(t, l, ChunkReq(t, op[t].offset, op[t].data, op[t].buf_size, l))
           ELSE Return(t, l, Ok(Unit))

\* after write_offset(..)? : its error is returned, else the counters move by
\* the reported byte count and the loop condition is tested again
write_all_bytes_buffered_offset_ret(t) ==
    /\ Running(t, {"buffered"})
    /\ LET r == WriteOutcome(t)
           l == IF r.tag = "Ok" THEN Advance(loc[t], r.val) ELSE loc[t]
       IN  IF r.tag = "Err"
           THEN Return(t, l, r)
           ELSE IF l.remaining > 0
           THEN Again(t, l, ChunkReq(t, op[t].offset, op[t].data, op[t].buf_size, l))
           ELSE Return(t, l, Ok(Unit))

-----------------------------------------------------------------------------
(* SendAlloc and its conversion to an Allocation *)

\* SendAlloc::new(h_process, p_base)
SendAlloc_new(h_process, p_base_) == [h_process |-> h_process, p_base |-> p_base_]

\* SendAlloc::p_base(&self)
p_base(self) == self.p_base

\* (mutant) the base is left null
from_null_base(value) == [h_process |-> value.h_process, base |-> Word(0)]

\* impl From<SendAlloc> for Allocation
from(value) == [h_process |-> value.h_process, base |-> p_base(value)]

-----------------------------------------------------------------------------
(* Inputs *)

Slots == {MemLo + WordSize * k : k \in 0..((MemLen \div WordSize) - 1)}

\* the memory image holding word f[s] at slot s, little endian
WordsImage(f) ==
    [a \in Mapped |->
        LET s == MemLo + WordSize * ((a - MemLo) \div WordSize)
        IN  IF s \in Slots THEN to_le_bytes(f[s])[a - s + 1] ELSE 0]

ZeroImage == [a \in Mapped |-> 0]
RampImage == [a \in Mapped |-> a]

\* words stored in pointer graphs: null, each slot, a slot minus 16, 0xDEADBEEF
GraphWords == {Word(0), DEADBEEF} \cup {Word(s) : s \in Slots}
                \cup {Word(s - 16) : s \in Slots}

GraphImages == {WordsImage(f) : f \in [Slots -> GraphWords]}

\* w0 = &w1, w1 = &w2 - 16, w2 = 0xDEADBEEF, the three words at distinct slots
ChainImage(s0, s1, s2) ==
    WordsImage([s \in Slots |->
        IF s = s0 THEN Word(s1)
        ELSE IF s = s1 THEN Word(s2 - 16)
        ELSE IF s = s2 THEN DEADBEEF
        ELSE Word(0)])

Offsets == {0, 8, 16}

RECURSIVE ListsUpTo(_, _)
ListsUpTo(S, n) ==
    IF n = 0 THEN {<<>>}
    ELSE LET shorter == ListsUpTo(S, n - 1)
         IN  shorter \cup {Append(l, x) : l \in {m \in shorter : Len(m) = n - 1}, x \in S}

OffsetLists == ListsUpTo(Offsets, MaxOffsets)

PayloadBytes == {170, 187}
Payloads == ListsUpTo(PayloadBytes, MaxLen)

U32Values == {Num(1, 4), Num(16909060, 4), <<222, 173, 190, 239>>}

-----------------------------------------------------------------------------
(* Specifications *)

Start(images, shorts, handles, bases, plans) ==
    /\ mem \in images
    /\ shortOk \in shorts
    /\ \E h \in handles, b \in bases :
          alloc = [t \in Threads |-> IF t = "A" THEN existing(h, b) ELSE None]
    /\ pc = [t \in Threads |-> "idle"]
    /\ op = [t \in Threads |-> None]
    /\ loc = [t \in Threads |-> None]
    /\ req = [t \in Threads |-> None]
    /\ res = [t \in Threads |-> None]
    /\ result = [t \in Threads |-> None]
    /\ lastError = [t \in Threads |-> 0]
    /\ ghost = [t \in Threads |-> Ghost0]
    /\ chan = None
    /\ fence = FALSE
    /\ plan \in plans

\* --- every single-call operation, on a few memory images

ReadAddrs == {Word(0), Word(MemLo), Word(MemLo + 1), Word(MemHi - 2)}

Init == Start({ZeroImage, RampImage, ChainImage(MemLo, MemLo + 8, MemLo + 16)},
              BOOLEAN, {HProc}, {Word(MemLo), Word(MemHi - 2)}, {<<>>})

read_const_3(t, addr) == read_const(t, "const", 3, addr)

Next ==
    \/ \E a \in ReadAddrs : read_const_3("A", a)
    \/ \E a \in ReadAddrs : read_u8("A", a)
    \/ \E a \in ReadAddrs : read_u16("A", a)
    \/ \E a \in ReadAddrs : read_u32("A", a)
    \/ \E a \in ReadAddrs : read_u64("A", a)
    \/ \E a \in ReadAddrs : read_u128("A", a)
    \/ \E a \in ReadAddrs : read_i16("A", a)
    \/ \E a \in ReadAddrs : read_i32("A", a)
    \/ \E a \in ReadAddrs : read_i64("A", a)
    \/ \E a \in ReadAddrs : read_f32("A", a)
    \/ \E a \in ReadAddrs : read_f64("A", a)
    \/ read_const_ret("A")
    \/ \E a \in {Word(MemLo), Word(MemHi - 8)} : Vector2_read_from("A", a)
    \/ \E a \in {Word(MemLo), Word(MemHi - 8)} : Vector3_read_from("A", a)
    \/ Vector2_read_from_ret("A")
    \/ Vector3_read_from_ret("A")
    \/ \E a \in {Word(MemLo)}, l \in OffsetLists : deref_chain("A", a, l)
    \/ \E a \in {Word(0)}, l \in OffsetLists : deref_chain_with_base("A", a, l)
    \/ deref_chain_ret("A")
    \/ \E o \in {0, 1}, d \in Payloads, c \in 0..(2 * MaxLen) :
          write_all_bytes_buffered_offset("A", o, d, c)
    \/ \E d \in Payloads, c \in 0..(2 * MaxLen) : write_all_bytes_buffered("A", d, c)
    \/ write_all_bytes_buffered_offset_ret("A")
    \/ ReadProcessMemory("A")
    \/ WriteProcessMemory("A")

Spec == Init /\ [][Next]_vars

-----------------------------------------------------------------------------
(* Claims checked under Spec *)

Done(t, names) == pc[t] = "done" /\ op[t].name \in names

Composite == {"deref_chain", "buffered", "read_from"}

\* the address base + offset + i of the running thread's allocation
At(t, offset, i) == LowVal(alloc[t].base) + offset + i

\* C1 (as claimed): whenever the OS read succeeds with fewer than N bytes,
\* read_const<N> and every typed reader built on it return Err.
C1_ShortReadIsErr ==
    \A t \in Threads :
        (Done(t, {"read_const"}) /\ res[t].ok /\ res[t].count < op[t].N)
            => result[t].tag = "Err"

\* C7: once an OS call of a composite operation has failed, no further OS
\* call is issued, the operation returns Err with the code of that call, and
\* the chunks a buffered write had written before stay in the target memory.
C7_FirstErrorPropagates ==
    \A t \in Threads :
        (pc[t] # "idle" /\ op[t].name \in Composite /\ ghost[t].failed)
            => /\ ~ghost[t].after
               /\ pc[t] \in {"ret", "done"}
               /\ pc[t] = "done" => result[t] = Err(ghost[t].firstErr)
               /\ op[t].name = "buffered" =>
                    /\ mem = ghost[t].memAtFail
                    /\ \A i \in 1..loc[t].total_written :
                          mem[At(t, op[t].offset, i - 1)] = op[t].data[i]

\* a buffered write that fails after it has written at least one chunk
C7_Witness ==
    /\ Done("A", {"buffered"})
    /\ result["A"].tag = "Err"
    /\ loc["A"].total_written > 0
    /\ ghost["A"].calls >= 2

\* C10: each chunk call of the buffered writer targets
\* base + offset + total_written with min(remaining, chunk) bytes taken from
\* data[total_written ..]; total_written + remaining = len(data) before every
\* chunk call; and on Ok every data[i] is stored at base + offset + i.
C10_BufferedWriteInvariant ==
    \A t \in Threads :
        (pc[t] # "idle" /\ op[t].name = "buffered") =>
            LET d == op[t].data
                l == loc[t]
            IN  /\ l.total_written + l.remaining = Len(d)
                /\ pc[t] = "os" =>
                    /\ req[t].kind = "write"
                    /\ req[t].addr = Word(At(t, op[t].offset, l.total_written))
                    /\ req[t].n = Min(l.remaining, op[t].buf_size)
                    /\ req[t].data = [i \in 1..req[t].n |-> d[l.total_written + i]]
                /\ (pc[t] = "done" /\ result[t].tag = "Ok") =>
                    \A i \in 1..Len(d) : mem[At(t, op[t].offset, i - 1)] = d[i]

\* a buffered write that returned Ok although some chunk call was short
C10_Witness ==
    /\ Done("A", {"buffered"})
    /\ result["A"].tag = "Ok"
    /\ ~ghost["A"].allFull
    /\ Len(op["A"].data) >= 2
    /\ op["A"].data[1] # op["A"].data[2]

-----------------------------------------------------------------------------
(* Pointer chains over every graph of the slots *)

InitDeref == Start(GraphImages, {FALSE}, {HProc}, {Word(MemLo)}, {<<>>})

NextDeref ==
    \/ \E a \in {Word(s) : s \in Slots} \cup {Word(0)}, l \in OffsetLists :
          deref_chain("A", a, l)
    \/ \E l \in OffsetLists : deref_chain_with_base("A", Word(WordSize), l)
    \/ deref_chain_ret("A")
    \/ ReadProcessMemory("A")

SpecDeref == InitDeref /\ [][NextDeref]_vars

\* the word stored at p (null where p is not readable)
WordAt(m, p) == IF InRange(p, WordSize) THEN from_le_bytes(BytesAt(m, p, WordSize))
                ELSE Word(0)

\* t_(k-1) |-> the address t_(N-1) + o_N, with t_k the word at t_(k-1) + o_k
RECURSIVE WalkFrom(_, _, _, _)
WalkFrom(m, t, offsets, k) ==
    LET a == wrapping_add(t, Word(offsets[k]))
    IN  IF k = Len(offsets) THEN a ELSE WalkFrom(m, WordAt(m, a), offsets, k + 1)

LeafAddress(m, start, offsets) == WalkFrom(m, WordAt(m, start), offsets, 1)

\* C2: with N >= 1 offsets and every read succeeding, deref_chain returns the
\* address t_(N-1) + o_N of its last read, not the word stored there.
C2_ReturnsLeafAddress ==
    \A t \in Threads :
        (Done(t, {"deref_chain"}) /\ Len(op[t].offsets) >= 1 /\ ghost[t].allFull)
            => result[t] = Ok(LeafAddress(mem, op[t].start, op[t].offsets))

\* a two-offset chain that succeeded, whose leaf holds a word other than its
\* own address
C2_Witness ==
    /\ Done("A", {"deref_chain"})
    /\ Len(op["A"].offsets) = 2
    /\ op["A"].offsets[1] # 0
    /\ result["A"].tag = "Ok"
    /\ WordAt(mem, result["A"].val) # result["A"].val
    /\ WordAt(mem, result["A"].val) # Word(0)

Unreadable(t) == ~Accessible(ReadReq(alloc[t].h_process, op[t].start, WordSize))

IsChain(m, start, s2) ==
    \E s0, s1 \in Slots :
        /\ start = Word(s0)
        /\ Cardinality({s0, s1, s2}) = 3
        /\ WordAt(m, Word(s0)) = Word(s1)
        /\ WordAt(m, Word(s1)) = Word(s2 - 16)
        /\ WordAt(m, Word(s2)) = DEADBEEF

\* C4 (as claimed): on that memory deref_chain(&w0, [16, 0]) succeeds and
\* returns an address whose word is 0xDEADBEEF.
C4_Chain16Then0 ==
    \A t \in Threads, s2 \in Slots :
        (/\ Done(t, {"deref_chain"})
         /\ op[t].offsets = <<16, 0>>
         /\ IsChain(mem, op[t].start, s2)
         /\ ~ghost[t].spurious)
            => /\ result[t].tag = "Ok"
               /\ WordAt(mem, result[t].val) = DEADBEEF

\* C4 (amended): on that memory deref_chain(&w0, [0, 16]) succeeds and
\* returns the address of w2, whose word is 0xDEADBEEF.
C4_Chain0Then16 ==
    \A t \in Threads, s2 \in Slots :
        (/\ Done(t, {"deref_chain"})
         /\ op[t].offsets = <<0, 16>>
         /\ IsChain(mem, op[t].start, s2)
         /\ ~ghost[t].spurious)
            => /\ result[t] = Ok(Word(s2))
               /\ WordAt(mem, result[t].val) = DEADBEEF

\* the chain [0, 16] has been walked on such a memory, w2 in the lowest slot
C4_Witness ==
    /\ Done("A", {"deref_chain"})
    /\ op["A"].offsets = <<0, 16>>
    /\ IsChain(mem, op["A"].start, MemLo)
    /\ ~ghost["A"].spurious

-----------------------------------------------------------------------------
(* The buffered writer alone, with the thread always scheduled *)

InitWrite == Start({ZeroImage, RampImage}, BOOLEAN, {HProc},
                   {Word(MemLo), Word(MemHi - 2)}, {<<>>})

NextWrite ==
    \/ \E o \in {0, 1}, d \in Payloads, c \in 0..(2 * MaxLen) :
          write_all_bytes_buffered_offset("A", o, d, c)
    \/ \E d \in Payloads, c \in 0..(2 * MaxLen) : write_all_bytes_buffered("A", d, c)
    \/ write_all_bytes_buffered_offset_ret("A")
    \/ WriteProcessMemory("A")

\* the calling thread runs and every OS call returns: a step that can be
\* taken is taken
FairSpecWrite == InitWrite /\ [][NextWrite]_vars /\ WF_vars(NextWrite)

\* the chunk sizes of the claim for a payload of length L
ClaimedChunks(L) == {1, L \div 2, L, L + 1, 2 * L}

\* C5 (as claimed): with offset 0 and a chunk size in {1, L/2, L, L+1, 2L},
\* if every OS write succeeds the buffered write returns Ok and leaves the
\* memory that one write_offset(0, payload, L) leaves.
C5_BufferedEqualsSingleWrite ==
    (/\ pc["A"] = "os"
     /\ op["A"].offset = 0
     /\ op["A"].buf_size \in ClaimedChunks(Len(op["A"].data)))
        ~> \/ ~ghost["A"].allFull
           \/ /\ pc["A"] = "done"
              /\ result["A"] = Ok(Unit)
              /\ mem = Store(op["A"].pre, alloc["A"].base, op["A"].data,
                             Len(op["A"].data))

\* C6 (as claimed): every call of the buffered writer eventually returns,
\* whatever the chunk size and whatever the OS reports.
C6_BufferedWriteReturns == (pc["A"] = "os") ~> (pc["A"] = "done")

-----------------------------------------------------------------------------
(* Offset math: one u32 write followed by read_u32_offset at the same offset *)

\* the caller's scenario: which writer, the offset and the value
OffsetPlans ==
    {<<[fn |-> f, o |-> o, v |-> v, result |-> None]>> :
        f \in {"write_u32", "write_u32_offset"}, o \in 0..5, v \in U32Values}

InitOffset == Start({ZeroImage, RampImage}, BOOLEAN, {HProc},
                    {Word(MemHi - 8), Word(MemHi - 6)}, OffsetPlans)

\* the caller writes v through write_u32_offset(o, v) ...
CallerWritesAtOffset ==
    /\ plan[1].fn = "write_u32_offset"
    /\ plan[1].result = None
    /\ write_u32_offset("A", plan[1].o, plan[1].v)

\* ... or through write_u32(base + o, v)
CallerWritesAtAddress ==
    /\ plan[1].fn = "write_u32"
    /\ plan[1].result = None
    /\ write_u32("A", PtrAdd(alloc["A"].base, plan[1].o), plan[1].v)

\* the caller takes the result of the write
CallerTakesResult ==
    /\ Done("A", {"write"})
    /\ plan[1].result = None
    /\ plan' = [plan EXCEPT ![1].result = result["A"]]
    /\ pc' = [pc EXCEPT !["A"] = "idle"]
    /\ UNCHANGED <<mem, shortOk, alloc, op, loc, req, res, result, lastError,
                   ghost, chan, fence>>

\* and then reads at the same offset
CallerReadsAtOffset ==
    /\ plan[1].result # None
    /\ read_u32_offset("A", plan[1].o)

NextOffset ==
    \/ CallerWritesAtOffset
    \/ CallerWritesAtAddress
    \/ write_ret("A")
    \/ CallerTakesResult
    \/ CallerReadsAtOffset
    \/ read_u32_offset_ret("A")
    \/ ReadProcessMemory("A")
    \/ WriteProcessMemory("A")

SpecOffset == InitOffset /\ [][NextOffset]_vars

\* bytes left in the allocation from its base to the end of the mapping
SizeOf(t) == MemHi - LowVal(alloc[t].base)

\* C8: for 0 <= o <= size - 4, a u32 written by write_u32_offset(o, v) or by
\* write_u32(base + o, v) occupies base+o .. base+o+3 least significant byte
\* first, and read_u32_offset(o) then returns v.
C8_OffsetRoundTrip ==
    (/\ Len(plan) = 1
     /\ plan[1].o <= SizeOf("A") - 4
     /\ plan[1].result = Ok(4))
        => /\ \A i \in 0..3 : mem[At("A", plan[1].o, i)] = plan[1].v[4 - i]
           /\ (Done("A", {"read_u32_offset"}) /\ res["A"].ok /\ res["A"].count = 4)
                => result["A"] = Ok([ty |-> "u32", digits |-> plan[1].v])

\* 0x01020304 written at an absolute address, then read back at offset 2
C8_Witness ==
    /\ Len(plan) = 1
    /\ plan[1].fn = "write_u32"
    /\ plan[1].o = 2
    /\ plan[1].v = Num(16909060, 4)
    /\ plan[1].result = Ok(4)
    /\ Done("A", {"read_u32_offset"})
    /\ result["A"].tag = "Ok"
    /\ res["A"].count = 4

-----------------------------------------------------------------------------
(* Thread transfer: thread A builds and sends a SendAlloc and writes u32 = 1 *)
(* at offset 0; thread B converts it and, after the fence, reads offset 0    *)

InitThread == Start({ZeroImage, RampImage}, BOOLEAN, {HProc, HInvalid},
                    {Word(MemLo), Word(MemHi - 4)}, {<<>>})

One == Num(1, 4)

\* thread A: SendAlloc::new(h, base), moved to thread B
ThreadASends ==
    /\ pc["A"] \in {"idle", "done"}
    /\ chan = None
    /\ chan' = SendAlloc_new(alloc["A"].h_process, alloc["A"].base)
    /\ UNCHANGED <<mem, shortOk, alloc, pc, op, loc, req, res, result, lastError,
                   ghost, fence, plan>>

\* thread B: Allocation::from(send_alloc)
ThreadBConverts ==
    /\ chan # None
    /\ alloc["B"] = None
    /\ alloc' = [alloc EXCEPT !["B"] = from(chan)]
    /\ UNCHANGED <<mem, shortOk, pc, op, loc, req, res, result, lastError,
                   ghost, chan, fence, plan>>

\* thread A: write_u32_offset(0, 1), once
ThreadAWrites ==
    /\ result["A"] = None
    /\ write_u32_offset("A", 0, One)

\* thread A: the write has returned; release the fence
ThreadAReleases ==
    /\ Done("A", {"write"})
    /\ ~fence
    /\ fence' = TRUE
    /\ UNCHANGED <<mem, shortOk, alloc, pc, op, loc, req, res, result, lastError,
                   ghost, chan, plan>>

\* thread B: past the fence, read_u32_offset(0)
ThreadBReads ==
    /\ fence
    /\ read_u32_offset("B", 0)

NextThread ==
    \/ ThreadASends
    \/ ThreadBConverts
    \/ ThreadAWrites
    \/ write_ret("A")
    \/ ThreadAReleases
    \/ ThreadBReads
    \/ read_u32_offset_ret("B")
    \/ WriteProcessMemory("A")
    \/ ReadProcessMemory("B")

SpecThread == InitThread /\ [][NextThread]_vars

\* C9: the Allocation thread B gets from the SendAlloc has the handle and
\* base it was built from, and a read of thread B that starts after thread
\* A's write of u32 = 1 at offset 0 has completed returns 1.
C9_ThreadTransfer ==
    /\ alloc["B"] # None =>
          /\ chan # None
          /\ alloc["B"].h_process = alloc["A"].h_process
          /\ alloc["B"].base = alloc["A"].base
    /\ (/\ Done("B", {"read_u32_offset"})
        /\ result["A"] = Ok(4)
        /\ res["B"].ok
        /\ res["B"].count = 4)
          => result["B"] = Ok([ty |-> "u32", digits |-> One])

\* thread B has read 1 from a memory that did not hold it at the start
C9_Witness ==
    /\ Done("B", {"read_u32_offset"})
    /\ result["A"] = Ok(4)
    /\ result["B"] = Ok([ty |-> "u32", digits |-> One])
    /\ alloc["B"].base = Word(MemHi - 4)

====
